---------------------------- MODULE Spec2Model ----------------------------
(***************************************************************************)
(* Model of IntentRecognition.execute (keyword variant) and of the         *)
(* configuredOutputs expression of                                         *)
(* src/nodes/IntentRecognition/IntentRecognition.node.ts, lines 384-403    *)
(* and 671-844.                                                            *)
(*                                                                         *)
(* Strings are sequences of one-character strings, so that split, trim,    *)
(* toLowerCase, includes, String() and JSON.stringify are computed as the  *)
(* code computes them.  Indices that the code uses (itemIndex,             *)
(* intentIndex, outputIndex) keep their 0-based values; the sequences      *)
(* they address are 1-based, hence the "+ 1" at every access.              *)
(*                                                                         *)
(* Left out: processingTime (a wall-clock timestamp no statement reads)    *)
(* and the binary attachment (copied through unchanged).                   *)
(***************************************************************************)
EXTENDS Integers, Sequences, FiniteSets

\* ------------------------------------------------------------------ bounds

\* Longest intentsList the configurations enumerate.
MaxIntents == 2

\* Longest input batch the configurations enumerate.
MaxItems == 2

\* Longest parameterOptions list the configurations enumerate.
MaxParams == 2

\* ----------------------------------------------------- program constants

\* intentMetadata.inputText is textToAnalyze.substring(0, 200).
InputTextLimit == 200

\* The error message quotes textToAnalyze.substring(0, 100).
ErrorTextLimit == 100

\* ------------------------------------------------------ JavaScript strings

Min(a, b) == IF a <= b THEN a ELSE b

\* String.prototype.substring(0, n).
Substring0(s, n) == SubSeq(s, 1, Min(n, Len(s)))

\* toLowerCase on one character of the model's alphabet.
LowerChar(c) ==
    CASE c = "A" -> "a"
      [] c = "B" -> "b"
      [] OTHER -> c

\* String.prototype.toLowerCase.
ToLowerCase(s) == [i \in 1..Len(s) |-> LowerChar(s[i])]

\* The characters String.prototype.trim removes (of the model's alphabet).
IsWhitespace(c) == c = " "

\* String.prototype.trim.
RECURSIVE Trim(_)
Trim(s) ==
    IF s = <<>> THEN s
    ELSE IF IsWhitespace(s[1]) THEN Trim(Tail(s))
    ELSE IF IsWhitespace(s[Len(s)]) THEN Trim(SubSeq(s, 1, Len(s) - 1))
    ELSE s

\* String.prototype.split(sep) for a one-character separator: the pieces
\* between separators, empty pieces kept.
RECURSIVE Split(_, _)
Split(s, sep) ==
    IF \E i \in 1..Len(s) : s[i] = sep
    THEN LET i == CHOOSE k \in 1..Len(s) :
                      s[k] = sep /\ \A j \in 1..(k - 1) : s[j] # sep
         IN  <<SubSeq(s, 1, i - 1)>> \o Split(SubSeq(s, i + 1, Len(s)), sep)
    ELSE <<s>>

\* String.prototype.includes: kw occurs in text as a substring (the empty
\* string occurs in every string).
Includes(text, kw) ==
    \E i \in 0..(Len(text) - Len(kw)) : SubSeq(text, i + 1, i + Len(kw)) = kw

\* ------------------------------------------------------- JavaScript values

\* A JSON value of a record field: one shape for every type.
Str(s) == [t |-> "string", s |-> s, n |-> 0, b |-> FALSE]
Num(n) == [t |-> "number", s |-> <<>>, n |-> n, b |-> FALSE]
Bool(b) == [t |-> "boolean", s |-> <<>>, n |-> 0, b |-> b]
Null == [t |-> "null", s |-> <<>>, n |-> 0, b |-> FALSE]
Undefined == [t |-> "undefined", s |-> <<>>, n |-> 0, b |-> FALSE]
\* An object value; its content is kept beside the field that holds it.
Obj == [t |-> "object", s |-> <<>>, n |-> 0, b |-> FALSE]

\* JavaScript truthiness, as in `if (item.json[inputField])`.
Truthy(v) ==
    CASE v.t = "string" -> v.s # <<>>
      [] v.t = "number" -> v.n # 0
      [] v.t = "boolean" -> v.b
      [] v.t = "object" -> TRUE
      [] OTHER -> FALSE

DigitChar == <<"0", "1", "2", "3", "4", "5", "6", "7", "8", "9">>

\* The decimal digits of a natural number.
RECURSIVE NumToString(_)
NumToString(n) ==
    IF n < 10 THEN <<DigitChar[n + 1]>>
    ELSE NumToString(n \div 10) \o <<DigitChar[(n % 10) + 1]>>

\* String(v) for a primitive value.
StringOf(v) ==
    CASE v.t = "string" -> v.s
      [] v.t = "number" -> NumToString(v.n)
      [] v.t = "boolean" -> IF v.b THEN <<"t", "r", "u", "e">>
                                   ELSE <<"f", "a", "l", "s", "e">>
      [] v.t = "null" -> <<"n", "u", "l", "l">>
      [] OTHER -> <<"u", "n", "d", "e", "f", "i", "n", "e", "d">>

\* JSON.stringify of one primitive value (the model's alphabet needs no
\* escapes).
JSONValue(v) ==
    IF v.t = "string" THEN <<"\"">> \o v.s \o <<"\"">> ELSE StringOf(v)

\* item.json: an ordered mapping, a sequence of [name, value] with no name
\* twice.
Has(json, name) == \E i \in 1..Len(json) : json[i].name = name

\* json[name]: the field's value, undefined when the field is absent.
Get(json, name) ==
    IF Has(json, name)
    THEN json[CHOOSE i \in 1..Len(json) : json[i].name = name].value
    ELSE Undefined

\* { ...json, name: value }: an own key keeps its place and takes the new
\* value, a new key goes last.
Put(json, name, value) ==
    IF Has(json, name)
    THEN [i \in 1..Len(json) |->
            IF json[i].name = name THEN [name |-> name, value |-> value]
            ELSE json[i]]
    ELSE Append(json, [name |-> name, value |-> value])

\* One field of an item.json.
Field(name, value) == [name |-> name, value |-> value]

\* JSON.stringify(item.json) for a flat record of primitive values.
RECURSIVE JSONFields(_)
JSONFields(json) ==
    IF json = <<>> THEN <<>>
    ELSE <<"\"">> \o json[1].name \o <<"\"", ":">> \o JSONValue(json[1].value)
         \o (IF Len(json) > 1 THEN <<",">> ELSE <<>>)
         \o JSONFields(Tail(json))

JSONStringify(json) == <<"{">> \o JSONFields(json) \o <<"}">>

\* ------------------------------------------------------------ field names

INPUT_FIELD == <<"m", "e", "s", "s", "a", "g", "e">>
RECOGNIZED_INTENT == <<"r", "e", "c", "o", "g", "n", "i", "z", "e", "d", "I", "n", "t", "e", "n", "t">>
EXTRACTED_PARAMETERS == <<"e", "x", "t", "r", "a", "c", "t", "e", "d", "P", "a", "r", "a", "m", "e", "t", "e", "r", "s">>
INTENT_METADATA == <<"i", "n", "t", "e", "n", "t", "M", "e", "t", "a", "d", "a", "t", "a">>
ERROR == <<"e", "r", "r", "o", "r">>

\* ----------------------------------------------------------- configuration

VARIABLES
    intentsList,       \* getNodeParameter('intentsList.intentOptions'): the intents, in order
    fallbackBehavior,  \* getNodeParameter('fallbackBehavior')
    options,           \* caseSensitive, confidenceThreshold, inputField after their defaults
    continueOnFail,    \* what this.continueOnFail() answers
    items,             \* getInputData(): the input batch
    returnData,        \* one array of output items per output
    itemIndex,         \* the loop counter of itemLoop (0-based)
    pc,                \* "loop" | "returned" | "failed": where execute is
    thrown,            \* the error execute rejected with, when pc = "failed"
    result,            \* what execute returned, when pc = "returned"
    outcome            \* per processed item: "Routed" | "Discarded" | "Failed"

vars == <<intentsList, fallbackBehavior, options, continueOnFail, items,
          returnData, itemIndex, pc, thrown, result, outcome>>

\* A confidence is keywordMatches.length / keywords.length, kept as the
\* fraction num/den.  The thresholds of the model (0, 1/2, 1) are exact
\* binary floating-point numbers, so the code's floating-point comparison
\* agrees with the comparison of fractions.
Frac(num, den) == [num |-> num, den |-> den]

\* a >= b for fractions with positive denominators.
FracGeq(a, b) == a.num * b.den >= b.num * a.den

\* a = b as numbers.
FracEq(a, b) == a.num * b.den = b.num * a.den

\* `let confidence = 0`.
ZeroConfidence == Frac(0, 1)

\* ------------------------------------------------------- configuredOutputs

\* `Intent ${index + 1}`.
IntentLabel(index) == <<"I", "n", "t", "e", "n", "t", " ">> \o NumToString(index + 1)

FALLBACK_LABEL == <<"F", "a", "l", "l", "b", "a", "c", "k">>
MAIN_LABEL == <<"M", "a", "i", "n">>

\* configuredOutputs with the fallback output pushed whatever the
\* fallbackBehavior.
ConfiguredOutputsAlwaysFallback(intents, behavior) ==
    Append([i \in 1..Len(intents) |->
              [type |-> "main",
               displayName |-> IF intents[i].key # <<>> THEN intents[i].key
                               ELSE IntentLabel(i - 1)]],
           [type |-> "main", displayName |-> FALLBACK_LABEL])

\* configuredOutputs(parameters): the outputs the node shows.
ConfiguredOutputs(intents, behavior) ==
    LET outputs == [i \in 1..Len(intents) |->
                      [type |-> "main",
                       displayName |-> IF intents[i].key # <<>> THEN intents[i].key
                                       ELSE IntentLabel(i - 1)]]
        withFallback == IF behavior = "route_to_fallback"
                        THEN Append(outputs, [type |-> "main", displayName |-> FALLBACK_LABEL])
                        ELSE outputs
    IN  IF Len(withFallback) > 0 THEN withFallback
        ELSE <<[type |-> "main", displayName |-> MAIN_LABEL]>>

\* ------------------------------------------------------- execute: set-up

\* const hasFallback = fallbackBehavior === 'route_to_fallback'.
HasFallback(behavior) == behavior = "route_to_fallback"

\* const totalOutputs = numIntents + (hasFallback ? 1 : 0).
TotalOutputs(intents, behavior) ==
    Len(intents) + (IF HasFallback(behavior) THEN 1 ELSE 0)

\* Array(totalOutputs).fill(0).map(() => []).
EmptyOutputs(n) == [i \in 1..n |-> <<>>]

\* ------------------------------------------------- execute: one iteration

\* The text to analyze: the input field when it is truthy, else the whole
\* record serialized; lower-cased unless caseSensitive.
TextToAnalyze(json, opts) ==
    LET raw == IF Truthy(Get(json, opts.inputField))
               THEN StringOf(Get(json, opts.inputField))
               ELSE JSONStringify(json)
    IN  IF ~opts.caseSensitive THEN ToLowerCase(raw) ELSE raw

\* intent.keywords.split(',').map(k => k.trim()).
KeywordsOf(keywordString) ==
    LET parts == Split(keywordString, ",")
    IN  [i \in 1..Len(parts) |-> Trim(parts[i])]

\* keywords.filter(keyword => textToAnalyze.includes(searchKeyword)).
KeywordMatches(keywords, textToAnalyze, caseSensitive) ==
    LET Found(keyword) ==
            Includes(textToAnalyze,
                     IF caseSensitive THEN keyword ELSE ToLowerCase(keyword))
    IN  SelectSeq(keywords, Found)

\* The extraction with a required parameter that has neither field nor
\* default set to null.
RECURSIVE ExtractFromRequiredAsNull(_, _, _)
ExtractFromRequiredAsNull(parameterOptions, json, extractedParameters) ==
    IF parameterOptions = <<>> THEN extractedParameters
    ELSE LET param == parameterOptions[1]
             next == IF Has(json, param.key)
                     THEN Put(extractedParameters, param.key, Get(json, param.key))
                     ELSE IF param.defaultValue # <<>>
                     THEN Put(extractedParameters, param.key, Str(param.defaultValue))
                     ELSE IF param.required
                     THEN Put(extractedParameters, param.key, Null)
                     ELSE extractedParameters
         IN  ExtractFromRequiredAsNull(Tail(parameterOptions), json, next)

\* The parameter loop of a recognized intent.
RECURSIVE ExtractFrom(_, _, _)
ExtractFrom(parameterOptions, json, extractedParameters) ==
    IF parameterOptions = <<>> THEN extractedParameters
    ELSE LET param == parameterOptions[1]
             next == IF Has(json, param.key)
                     THEN Put(extractedParameters, param.key, Get(json, param.key))
                     ELSE IF param.defaultValue # <<>>
                     THEN Put(extractedParameters, param.key, Str(param.defaultValue))
                     ELSE extractedParameters
         IN  ExtractFrom(Tail(parameterOptions), json, next)

ExtractParameters(intent, json) == ExtractFrom(intent.parameterOptions, json, <<>>)

\* The threshold test with > for >=.
MeetsThresholdStrictly(confidence, confidenceThreshold) ==
    ~FracGeq(confidenceThreshold, confidence)

\* Whether a computed confidence selects the intent.
MeetsThreshold(confidence, confidenceThreshold) ==
    FracGeq(confidence, confidenceThreshold)

\* The intent loop with `confidence` assigned before the test of
\* keywordMatches.length, for every intent that has keywords.
RECURSIVE RecognizeFromAssignAlways(_, _, _, _, _, _)
RecognizeFromAssignAlways(intentIndex, confidence, intents, json, textToAnalyze, opts) ==
    IF intentIndex >= Len(intents)
    THEN [recognizedIntentIndex |-> -1,
          recognizedIntentKey |-> Null,
          extractedParameters |-> <<>>,
          confidence |-> confidence]
    ELSE LET intent == intents[intentIndex + 1]
         IN  IF ~Truthy(intent.keywords)
             THEN RecognizeFromAssignAlways(intentIndex + 1, confidence, intents,
                                            json, textToAnalyze, opts)
             ELSE LET keywords == KeywordsOf(intent.keywords.s)
                      keywordMatches == KeywordMatches(keywords, textToAnalyze,
                                                       opts.caseSensitive)
                      computed == Frac(Len(keywordMatches), Len(keywords))
                  IN  IF Len(keywordMatches) > 0
                         /\ MeetsThreshold(computed, opts.confidenceThreshold)
                      THEN [recognizedIntentIndex |-> intentIndex,
                            recognizedIntentKey |-> Str(intent.key),
                            extractedParameters |-> ExtractParameters(intent, json),
                            confidence |-> computed]
                      ELSE RecognizeFromAssignAlways(intentIndex + 1, computed,
                                                     intents, json, textToAnalyze,
                                                     opts)

\* The intent loop from intentIndex on, `confidence` being the variable's
\* value so far.
RECURSIVE RecognizeFrom(_, _, _, _, _, _)
RecognizeFrom(intentIndex, confidence, intents, json, textToAnalyze, opts) ==
    IF intentIndex >= Len(intents)
    THEN [recognizedIntentIndex |-> -1,
          recognizedIntentKey |-> Null,
          extractedParameters |-> <<>>,
          confidence |-> confidence]
    ELSE LET intent == intents[intentIndex + 1]
         IN  IF ~Truthy(intent.keywords)
             THEN RecognizeFrom(intentIndex + 1, confidence, intents, json,
                                textToAnalyze, opts)
             ELSE LET keywords == KeywordsOf(intent.keywords.s)
                      keywordMatches == KeywordMatches(keywords, textToAnalyze,
                                                       opts.caseSensitive)
                      computed == Frac(Len(keywordMatches), Len(keywords))
                  IN  IF Len(keywordMatches) > 0
                      THEN IF MeetsThreshold(computed, opts.confidenceThreshold)
                           THEN [recognizedIntentIndex |-> intentIndex,
                                 recognizedIntentKey |-> Str(intent.key),
                                 extractedParameters |-> ExtractParameters(intent, json),
                                 confidence |-> computed]
                           ELSE RecognizeFrom(intentIndex + 1, computed, intents,
                                              json, textToAnalyze, opts)
                      ELSE RecognizeFrom(intentIndex + 1, confidence, intents,
                                         json, textToAnalyze, opts)

\* The recognition with the output looked up by key: the index of the first
\* intent that has the recognized key.
RecognizeByKey(intents, json, opts) ==
    LET r == RecognizeFrom(0, ZeroConfidence, intents, json,
                           TextToAnalyze(json, opts), opts)
    IN  IF r.recognizedIntentIndex < 0 THEN r
        ELSE [r EXCEPT !.recognizedIntentIndex =
                (CHOOSE j \in 1..Len(intents) :
                    /\ Str(intents[j].key) = r.recognizedIntentKey
                    /\ \A k \in 1..(j - 1) : Str(intents[k].key) # r.recognizedIntentKey) - 1]

\* The keyword-based recognition of one item.
Recognize(intents, json, opts) ==
    RecognizeFrom(0, ZeroConfidence, intents, json, TextToAnalyze(json, opts), opts)

\* The routing with 'discard' sending the record to the last output.
OutputRoutingDiscardToLast(recognizedIntentIndex, behavior, numOutputs) ==
    IF recognizedIntentIndex >= 0
    THEN [do |-> "push", outputIndex |-> recognizedIntentIndex]
    ELSE IF behavior = "error" THEN [do |-> "throw", outputIndex |-> -1]
    ELSE [do |-> "push", outputIndex |-> numOutputs - 1]

\* The routing with 'route_to_fallback' sending the record to the first
\* output.
OutputRoutingFallbackFirst(recognizedIntentIndex, behavior, numOutputs) ==
    IF recognizedIntentIndex >= 0
    THEN [do |-> "push", outputIndex |-> recognizedIntentIndex]
    ELSE CASE behavior = "route_to_fallback" -> [do |-> "push", outputIndex |-> 0]
           [] behavior = "error" -> [do |-> "throw", outputIndex |-> -1]
           [] OTHER -> [do |-> "continue", outputIndex |-> -1]

\* The routing with every matched record sent to the first output.
OutputRoutingMatchedToFirst(recognizedIntentIndex, behavior, numOutputs) ==
    IF recognizedIntentIndex >= 0
    THEN [do |-> "push", outputIndex |-> 0]
    ELSE CASE behavior = "route_to_fallback" ->
                [do |-> "push", outputIndex |-> numOutputs - 1]
           [] behavior = "error" -> [do |-> "throw", outputIndex |-> -1]
           [] OTHER -> [do |-> "continue", outputIndex |-> -1]

\* "Determine output routing": push to outputIndex, continue itemLoop, or
\* throw.
OutputRouting(recognizedIntentIndex, behavior, numOutputs) ==
    IF recognizedIntentIndex >= 0
    THEN [do |-> "push", outputIndex |-> recognizedIntentIndex]
    ELSE CASE behavior = "route_to_fallback" ->
                [do |-> "push", outputIndex |-> numOutputs - 1]
           [] behavior = "discard" ->
                [do |-> "continue", outputIndex |-> -1]
           [] behavior = "error" ->
                [do |-> "throw", outputIndex |-> -1]
           [] OTHER ->
                IF HasFallback(behavior)
                THEN [do |-> "push", outputIndex |-> numOutputs - 1]
                ELSE [do |-> "continue", outputIndex |-> -1]

\* The message of the NodeOperationError of the 'error' behavior.
NoIntentMessage(textToAnalyze) ==
    <<"N", "o", " ", "i", "n", "t", "e", "n", "t", " ", "r", "e", "c", "o", "g", "n", "i", "z", "e", "d", " ", "f", "o", "r", " ", "i", "n", "p", "u", "t", ":", " ">>
    \o Substring0(textToAnalyze, ErrorTextLimit) \o <<".", ".", ".">>

NoError == [name |-> "none", message |-> <<>>, itemIndex |-> -1]

\* new NodeOperationError(node, message, { itemIndex }).
NodeOperationError(message, index) ==
    [name |-> "NodeOperationError", message |-> message, itemIndex |-> index]

\* Reading .push of returnData[i] when returnData has no element i.
PushOfUndefined ==
    [name |-> "TypeError", message |-> <<"C", "a", "n", "n", "o", "t", " ", "r", "e", "a", "d", " ", "p", "r", "o", "p", "e", "r", "t", "i", "e", "s", " ", "o", "f", " ", "u", "n", "d", "e", "f", "i", "n", "e", "d">>,
     itemIndex |-> -1]

\* The processed item without the `...item.json` spread.
ProcessedItemWithoutSpread(json, r, textToAnalyze, index) ==
    [json |-> <<Field(RECOGNIZED_INTENT, r.recognizedIntentKey),
                Field(EXTRACTED_PARAMETERS, Obj),
                Field(INTENT_METADATA, Obj)>>,
     extractedParameters |-> r.extractedParameters,
     intentMetadata |-> [confidence |-> r.confidence,
                         inputText |-> Str(Substring0(textToAnalyze, InputTextLimit)),
                         error |-> FALSE],
     pairedItem |-> index]

\* The processed item of a routed record.
ProcessedItem(json, r, textToAnalyze, index) ==
    [json |-> Put(Put(Put(json, RECOGNIZED_INTENT, r.recognizedIntentKey),
                      EXTRACTED_PARAMETERS, Obj),
                  INTENT_METADATA, Obj),
     extractedParameters |-> r.extractedParameters,
     intentMetadata |-> [confidence |-> r.confidence,
                         inputText |-> Str(Substring0(textToAnalyze, InputTextLimit)),
                         error |-> FALSE],
     pairedItem |-> index]

\* The item the catch block pushes under continueOnFail.
ErrorItem(json, error, index) ==
    [json |-> Put(Put(Put(Put(json, ERROR, Str(error.message)),
                          RECOGNIZED_INTENT, Null),
                      EXTRACTED_PARAMETERS, Obj),
                  INTENT_METADATA, Obj),
     extractedParameters |-> <<>>,
     intentMetadata |-> [confidence |-> ZeroConfidence,
                         inputText |-> Undefined,
                         error |-> TRUE],
     pairedItem |-> index]

\* const errorOutputIndex = hasFallback ? returnData.length - 1 : 0.
ErrorOutputIndex(behavior, numOutputs) ==
    IF HasFallback(behavior) THEN numOutputs - 1 ELSE 0

\* The push when every output is the same array (Array(n).fill([])).
PushToEvery(data, outputIndex, item) ==
    [ch \in 1..Len(data) |-> Append(data[ch], item)]

\* The push at the front of the output (unshift).
PushFront(data, outputIndex, item) ==
    [data EXCEPT ![outputIndex + 1] = <<item>> \o @]

\* returnData[outputIndex].push(item).
Push(data, outputIndex, item) ==
    [data EXCEPT ![outputIndex + 1] = Append(@, item)]

\* What the catch block rethrows without continueOnFail.
Rethrown(error, index) ==
    IF error.name \in {"NodeOperationError", "ApplicationError"} THEN error
    ELSE NodeOperationError(error.message, index)

\* The return without the `: [[]]`.
ReturnedAsIs(data) == data

\* return returnData.length ? returnData : [[]].
Returned(data) == IF Len(data) > 0 THEN data ELSE << <<>> >>

\* ------------------------------------------------------- the configurations

\* Every sequence over S of length at most n.
SeqsUpTo(S, n) == UNION {[1..k -> S] : k \in 0..n}

GREETING == <<"g", "r", "e", "e", "t", "i", "n", "g">>
BOOKING == <<"b", "o", "o", "k", "i", "n", "g">>

\* The confidenceThreshold values: 0, the default 0.5, and 1.
DefaultThreshold == Frac(1, 2)
Thresholds == {Frac(0, 1), DefaultThreshold, Frac(1, 1)}

\* options after `?? false`, `?? 0.5`, `?? 'message'`.
Options(caseSensitive, confidenceThreshold) ==
    [caseSensitive |-> caseSensitive,
     confidenceThreshold |-> confidenceThreshold,
     inputField |-> INPUT_FIELD]

DefaultOptions == Options(FALSE, DefaultThreshold)

\* The three values the fallbackBehavior property offers, and one it does
\* not.
Behaviors == {"route_to_fallback", "discard", "error", "unknown"}

Intent(key, keywords, parameterOptions) ==
    [key |-> key, keywords |-> keywords, parameterOptions |-> parameterOptions]

\* An input item whose json has the fields `json`; pairedItem -1: not set.
Item(json) == [json |-> json, pairedItem |-> -1]

\* Batches that exercise the routing: one-keyword intents, keys that may
\* repeat, texts that match one intent, the other or none, every
\* fallbackBehavior and both failure modes.
RoutingIntents == {Intent(k, Str(kw), <<>>) : k \in {GREETING, BOOKING}, kw \in {<<"a">>, <<"b">>}}
RoutingItems == {Item(<<Field(INPUT_FIELD, Str(t))>>) : t \in {<<"a">>, <<"b">>, <<"c">>}}
RoutingConfigs ==
    [intentsList : SeqsUpTo(RoutingIntents, MaxIntents),
     fallbackBehavior : Behaviors,
     options : {DefaultOptions},
     continueOnFail : BOOLEAN,
     items : SeqsUpTo(RoutingItems, MaxItems)]

\* Batches that exercise the classifier: keyword strings that are absent,
\* empty, blank, of one or two tokens, with a trailing comma, with spaces
\* and upper case; input fields that are absent, falsy or texts; every
\* threshold and both case modes.
KeywordStrings ==
    {Undefined, Str(<<>>), Str(<<" ">>), Str(<<"a">>), Str(<<"a", ",">>), Str(<<"a", ",", " ", "B">>)}
ClassifierIntents == {Intent(GREETING, kw, <<>>) : kw \in KeywordStrings}
ClassifierItems ==
    {Item(<<>>)} \cup
    {Item(<<Field(INPUT_FIELD, v)>>) :
        v \in {Str(<<>>), Num(0), Bool(FALSE), Str(<<"a">>), Str(<<"b">>), Str(<<"a", " ", "B">>)}}
ClassifierConfigs ==
    [intentsList : SeqsUpTo(ClassifierIntents, MaxIntents),
     fallbackBehavior : {"route_to_fallback"},
     options : {Options(cs, th) : cs \in BOOLEAN, th \in Thresholds},
     continueOnFail : {FALSE},
     items : {<<i>> : i \in ClassifierItems}]

\* Batches that exercise the parameter extraction and the enrichment: one
\* intent with parameters that are required or not, with or without a
\* default; one record whose text matches it or not, with or without a
\* field of a parameter's name (a string or a number), with or without a
\* field of a name the enriched record sets; routed to the fallback or
\* turned into an error record.
DATE == <<"d", "a", "t", "e">>
CITY == <<"c", "i", "t", "y">>

Param(key, required, defaultValue) ==
    [key |-> key, type |-> "string", required |-> required,
     defaultValue |-> defaultValue]

ParamOptions ==
    {Param(k, rq, dv) : k \in {DATE, CITY}, rq \in BOOLEAN, dv \in {<<>>, <<"x">>}}

ExtractionIntents ==
    {Intent(BOOKING, Str(<<"a">>), ps) : ps \in SeqsUpTo(ParamOptions, MaxParams)}

\* The field names the enriched record and the error record set.
OutputFieldNames == {RECOGNIZED_INTENT, EXTRACTED_PARAMETERS, INTENT_METADATA, ERROR}

ExtractionItems ==
    {Item(<<Field(INPUT_FIELD, Str(t))>> \o date \o own) :
        t \in {<<"a">>, <<"c">>},
        date \in {<<>>, <<Field(DATE, Str(<<"b">>))>>, <<Field(DATE, Num(7))>>},
        own \in {<<>>} \cup {<<Field(n, Str(<<"x">>))>> : n \in OutputFieldNames}}

ExtractionConfigs ==
    [intentsList : {<<i>> : i \in ExtractionIntents},
     fallbackBehavior : {"route_to_fallback"},
     options : {DefaultOptions},
     continueOnFail : {FALSE},
     items : {<<i>> : i \in ExtractionItems}]
    \cup
    [intentsList : {<<i>> : i \in ExtractionIntents},
     fallbackBehavior : {"error"},
     options : {DefaultOptions},
     continueOnFail : {TRUE},
     items : {<<i>> : i \in ExtractionItems}]

Configs == RoutingConfigs \cup ClassifierConfigs \cup ExtractionConfigs

\* ------------------------------------------------------------ the machine

\* execute up to the item loop: the parameters are read and returnData is
\* initialised to totalOutputs empty arrays.
Init ==
    \E c \in Configs :
        /\ intentsList = c.intentsList
        /\ fallbackBehavior = c.fallbackBehavior
        /\ options = c.options
        /\ continueOnFail = c.continueOnFail
        /\ items = c.items
        /\ returnData = EmptyOutputs(TotalOutputs(c.intentsList, c.fallbackBehavior))
        /\ itemIndex = 0
        /\ pc = "loop"
        /\ thrown = NoError
        /\ result = <<>>
        /\ outcome = <<>>

\* execute rejects with `error`: the item's processing failed and the loop
\* stops at it.
Throw(error) ==
    /\ pc' = "failed"
    /\ thrown' = error
    /\ outcome' = Append(outcome, "Failed")
    /\ UNCHANGED <<returnData, itemIndex, result>>

\* The iteration ends with `item` pushed to returnData[outputIndex], or
\* with the TypeError of pushing to an output that does not exist.
PushOrThrow(outputIndex, item, how) ==
    IF outputIndex >= 0 /\ outputIndex < Len(returnData)
    THEN /\ returnData' = Push(returnData, outputIndex, item)
         /\ outcome' = Append(outcome, how)
         /\ itemIndex' = itemIndex + 1
         /\ UNCHANGED <<pc, thrown, result>>
    ELSE Throw(PushOfUndefined)

\* The catch block that takes the continueOnFail branch in either mode.
CatchAlwaysContinues(error) ==
    PushOrThrow(ErrorOutputIndex(fallbackBehavior, Len(returnData)),
                ErrorItem(items[itemIndex + 1].json, error, itemIndex),
                "Failed")

\* The catch block of the iteration.
Catch(error) ==
    IF continueOnFail
    THEN PushOrThrow(ErrorOutputIndex(fallbackBehavior, Len(returnData)),
                     ErrorItem(items[itemIndex + 1].json, error, itemIndex),
                     "Failed")
    ELSE Throw(Rethrown(error, itemIndex))

\* `continue itemLoop`.
Continue ==
    /\ outcome' = Append(outcome, "Discarded")
    /\ itemIndex' = itemIndex + 1
    /\ UNCHANGED <<returnData, pc, thrown, result>>

\* One iteration of itemLoop, its try and its catch.
ProcessItem ==
    /\ pc = "loop"
    /\ itemIndex < Len(items)
    /\ items' = [items EXCEPT ![itemIndex + 1].pairedItem = itemIndex]
    /\ LET json == items[itemIndex + 1].json
           textToAnalyze == TextToAnalyze(json, options)
           r == Recognize(intentsList, json, options)
           routing == OutputRouting(r.recognizedIntentIndex, fallbackBehavior,
                                    Len(returnData))
       IN  CASE routing.do = "push" ->
                    IF routing.outputIndex >= 0 /\ routing.outputIndex < Len(returnData)
                    THEN PushOrThrow(routing.outputIndex,
                                     ProcessedItem(json, r, textToAnalyze, itemIndex),
                                     "Routed")
                    ELSE Catch(PushOfUndefined)
             [] routing.do = "continue" -> Continue
             [] OTHER ->
                    Catch(NodeOperationError(NoIntentMessage(textToAnalyze), itemIndex))
    /\ UNCHANGED <<intentsList, fallbackBehavior, options, continueOnFail>>

\* The loop is over: `return returnData.length ? returnData : [[]]`.
Return ==
    /\ pc = "loop"
    /\ itemIndex >= Len(items)
    /\ result' = Returned(returnData)
    /\ pc' = "returned"
    /\ UNCHANGED <<intentsList, fallbackBehavior, options, continueOnFail, items,
                   returnData, itemIndex, thrown, outcome>>

Next == ProcessItem \/ Return

Spec == Init /\ [][Next]_vars

\* ------------------------------------------------------- what is observed

\* The three values the fallbackBehavior property offers.
KnownBehaviors == {"route_to_fallback", "discard", "error"}

\* The number of configured intents.
NumIntents == Len(intentsList)

\* Two intents share a key (case-sensitive exact match).
HasDuplicateKeys ==
    \E i, j \in 1..Len(intentsList) :
        i # j /\ intentsList[i].key = intentsList[j].key

\* The places <<channel, position>> (0-based channel) of the output items
\* in `data`.
Places(data) ==
    UNION {{<<ch - 1, pos>> : pos \in 1..Len(data[ch])} : ch \in 1..Len(data)}

\* The output item at a place.
At(data, pl) == data[pl[1] + 1][pl[2]]

\* The places of the output items that come from input item i.
PlacesOf(data, i) == {pl \in Places(data) : At(data, pl).pairedItem = i}

\* The number of output items in `data`.
RECURSIVE TotalItems(_)
TotalItems(data) ==
    IF data = <<>> THEN 0 ELSE Len(data[1]) + TotalItems(Tail(data))

\* The outputs whose displayName is 'Fallback'.
FallbackOutputs(outputs) ==
    {i \in 1..Len(outputs) : outputs[i].displayName = FALLBACK_LABEL}

\* The keyword tokens the code counts for an intent: none when the keyword
\* string is falsy.
IntentKeywords(intent) ==
    IF Truthy(intent.keywords) THEN KeywordsOf(intent.keywords.s) ELSE <<>>

\* The text the code analyzes for input item i.
TextOf(i) == TextToAnalyze(items[i + 1].json, options)

\* How many of the intent's counted tokens the code finds in the text of
\* input item i.
MatchCount(intent, i) ==
    Len(KeywordMatches(IntentKeywords(intent), TextOf(i), options.caseSensitive))

\* keywordMatches.length / keywords.length of one intent for input item i,
\* 0 for an intent without keywords.
ComputedConfidence(intent, i) ==
    IF IntentKeywords(intent) = <<>> THEN ZeroConfidence
    ELSE Frac(MatchCount(intent, i), Len(IntentKeywords(intent)))

\* The least 0-based index of an intent that satisfies Q, -1 when none does.
FirstIntent(Q(_)) ==
    LET S == {j \in 1..Len(intentsList) : Q(intentsList[j])}
    IN  IF S = {} THEN -1
        ELSE (CHOOSE j \in S : \A k \in S : j <= k) - 1

\* The first intent, in declaration order, of which the code finds at least
\* one keyword in the text of input item i and whose confidence reaches the
\* threshold.
FirstQualifying(i) ==
    LET Q(intent) == /\ MatchCount(intent, i) > 0
                     /\ FracGeq(ComputedConfidence(intent, i), options.confidenceThreshold)
    IN  FirstIntent(Q)

\* The intent selected for the processed input item i, read off the output:
\* the channel of its output item when that item names a recognized intent,
\* -1 otherwise.
SelectedIntent(i) ==
    LET named == {pl \in PlacesOf(returnData, i) :
                     Get(At(returnData, pl).json, RECOGNIZED_INTENT) # Null}
    IN  IF outcome[i + 1] = "Routed" /\ named # {}
        THEN (CHOOSE pl \in named : TRUE)[1]
        ELSE -1

\* The 0-based indices of the input items processed so far.
Processed == 0..(Len(outcome) - 1)

\* ------------------------------------------------------------------ claims

\* The channel count the code produces: K + 1 with a fallback, K without
\* one, and one channel when that would be none.
ChannelCount ==
    IF NumIntents = 0 /\ ~HasFallback(fallbackBehavior) THEN 1
    ELSE NumIntents + (IF HasFallback(fallbackBehavior) THEN 1 ELSE 0)

\* C1 as stated: for K intents a batch's output has exactly K + 1 channels
\* under route_to_fallback and exactly K channels under discard or error,
\* both as execute returns it and as the node declares its outputs.
C1_ChannelCountAsStated ==
    (pc = "returned" /\ fallbackBehavior \in KnownBehaviors) =>
        LET n == NumIntents + (IF fallbackBehavior = "route_to_fallback" THEN 1 ELSE 0)
        IN  /\ Len(result) = n
            /\ Len(ConfiguredOutputs(intentsList, fallbackBehavior)) = n

\* C1, amended: K + 1 channels under route_to_fallback, the fallback being
\* the last one (index K) and the only one; K channels and no fallback
\* channel under discard or error when K >= 1; and exactly one channel, not
\* a fallback, when K = 0 under discard or error.  This holds of the
\* declared outputs and of the returned output, whose unmatched records lie
\* in the last channel only.
C1_ChannelCount ==
    fallbackBehavior \in KnownBehaviors =>
        LET outputs == ConfiguredOutputs(intentsList, fallbackBehavior)
        IN  /\ Len(outputs) = ChannelCount
            /\ Len(returnData) =
                 NumIntents + (IF fallbackBehavior = "route_to_fallback" THEN 1 ELSE 0)
            /\ pc = "returned" => Len(result) = ChannelCount
            /\ FallbackOutputs(outputs) =
                 IF fallbackBehavior = "route_to_fallback" THEN {NumIntents + 1} ELSE {}
            /\ \A pl \in Places(returnData) :
                 (~At(returnData, pl).intentMetadata.error
                  /\ Get(At(returnData, pl).json, RECOGNIZED_INTENT) = Null)
                 => (fallbackBehavior = "route_to_fallback" /\ pl[1] = NumIntents)

\* C1's case: a batch returned K + 1 = 3 channels under route_to_fallback,
\* a record lying in the fallback channel.
C1_Witness ==
    /\ pc = "returned"
    /\ fallbackBehavior = "route_to_fallback"
    /\ NumIntents = 2
    /\ Len(result) = 3
    /\ result[3] # <<>>

\* C2 as stated: with two intents of the same key the batch fails before
\* any record is processed: no record is classified, nothing is appended to
\* any channel and no output is returned.
C2_DuplicateKeysRejected ==
    HasDuplicateKeys =>
        /\ outcome = <<>>
        /\ TotalItems(returnData) = 0
        /\ pc # "returned"

\* C2, amended: two intents of the same key raise no configuration error,
\* in strict and in continue-on-failure mode alike; the records are
\* processed in order as with distinct keys, a matched record going to the
\* channel of the first declaration that matches it.  The call returns
\* with every record processed, unless fallbackBehavior is error, the mode
\* is strict and a record matches no intent: then it fails at that record
\* with the no-intent error.
C2_DuplicateKeysProcessed ==
    HasDuplicateKeys =>
        /\ Len(outcome) = itemIndex + (IF pc = "failed" THEN 1 ELSE 0)
        /\ pc = "returned" => Len(outcome) = Len(items)
        /\ pc = "failed" =>
             /\ fallbackBehavior = "error"
             /\ ~continueOnFail
             /\ thrown = NodeOperationError(NoIntentMessage(TextOf(itemIndex)), itemIndex)
             /\ FirstQualifying(itemIndex) = -1
        /\ \A i \in Processed :
             FirstQualifying(i) >= 0 =>
                /\ outcome[i + 1] = "Routed"
                /\ \E pl \in PlacesOf(returnData, i) :
                     /\ pl[1] = FirstQualifying(i)
                     /\ PlacesOf(returnData, i) = {pl}

\* C2's case: a batch whose two intents share a key returned, with a record
\* routed to the second of them.
C2_Witness ==
    /\ HasDuplicateKeys
    /\ pc = "returned"
    /\ NumIntents = 2
    /\ returnData[2] # <<>>

\* C3 as stated: with no intents and fallbackBehavior discard or error the
\* batch fails before any record is processed and never returns an output.
C3_EmptyTopologyRejected ==
    (NumIntents = 0 /\ fallbackBehavior \in {"discard", "error"}) =>
        /\ outcome = <<>>
        /\ pc # "returned"

\* C3, amended: with no intents and fallbackBehavior discard or error
\* nothing is checked before the records.  Under discard every record is
\* discarded and the call returns one empty channel, in both modes.  Under
\* error the call fails at its first record, in both modes, and returns one
\* empty channel only for an empty batch.
C3_EmptyTopology ==
    (NumIntents = 0 /\ fallbackBehavior \in {"discard", "error"}) =>
        /\ returnData = <<>>
        /\ pc = "returned" =>
             /\ result = << <<>> >>
             /\ fallbackBehavior = "error" => items = <<>>
        /\ pc = "failed" =>
             /\ fallbackBehavior = "error"
             /\ itemIndex = 0
             /\ items # <<>>
             /\ ~continueOnFail => thrown.name = "NodeOperationError"
        /\ fallbackBehavior = "discard" =>
             \A i \in 1..Len(outcome) : outcome[i] = "Discarded"
        /\ (fallbackBehavior = "error" /\ items # <<>>) => pc # "returned"

\* C3's case: with no intents and discard, a batch of records returned.
C3_Witness ==
    /\ NumIntents = 0
    /\ fallbackBehavior = "discard"
    /\ items # <<>>
    /\ pc = "returned"
    /\ result = << <<>> >>

\* C4 as stated: the selected intent is the first intent in declaration
\* order whose confidence is at least the threshold (threshold 0 included),
\* and none is selected only when no intent's confidence reaches it.
C4_FirstAtLeastThreshold ==
    \A i \in Processed :
        LET Q(intent) == FracGeq(ComputedConfidence(intent, i), options.confidenceThreshold)
        IN  SelectedIntent(i) = FirstIntent(Q)

\* C4, amended: the selected intent is the first intent in declaration
\* order of which at least one keyword is found in the text and whose
\* confidence is at least the threshold, also when a later intent has the
\* higher confidence; none is selected only when no intent is such.
C4_FirstMatchWins ==
    \A i \in Processed : SelectedIntent(i) = FirstQualifying(i)

\* C4's case: a record was given to the first intent although the second
\* one has the higher confidence for it.
C4_Witness ==
    /\ NumIntents = 2
    /\ Len(outcome) = 1
    /\ SelectedIntent(0) = 0
    /\ ~FracGeq(ComputedConfidence(intentsList[1], 0), ComputedConfidence(intentsList[2], 0))

\* The non-empty tokens of an intent's keyword string.
NonEmptyKeywords(intent) ==
    LET NonEmpty(k) == k # <<>>
    IN  SelectSeq(IntentKeywords(intent), NonEmpty)

\* C5 as stated: the confidence of the selected intent is the number of its
\* non-empty keyword tokens found in the text over the number of its
\* non-empty keyword tokens, and an intent whose keyword string yields no
\* such token is never selected.
C5_ConfidenceOverNonEmptyTokens ==
    \A i \in Processed :
        SelectedIntent(i) >= 0 =>
            LET intent == intentsList[SelectedIntent(i) + 1]
                tokens == NonEmptyKeywords(intent)
                found == KeywordMatches(tokens, TextOf(i), options.caseSensitive)
                item == At(returnData, CHOOSE pl \in PlacesOf(returnData, i) : TRUE)
            IN  /\ tokens # <<>>
                /\ FracEq(item.intentMetadata.confidence, Frac(Len(found), Len(tokens)))

\* C6: every input record yields at most one output record: no itemIndex
\* lies at two places of the output, in two channels or twice in one.  A
\* routed record lies at exactly one place, a discarded or not yet
\* processed one at none, and the returned output holds the same places.
C6_AtMostOneOutput ==
    \A i \in 0..(Len(items) - 1) :
        LET n == Cardinality(PlacesOf(returnData, i))
        IN  /\ n <= 1
            /\ i \notin Processed => n = 0
            /\ i \in Processed =>
                 /\ outcome[i + 1] = "Routed" => n = 1
                 /\ outcome[i + 1] = "Discarded" => n = 0
            /\ pc = "returned" => PlacesOf(result, i) = PlacesOf(returnData, i)

\* C6's case: a returned batch of which one record was routed and another
\* discarded.
C6_Witness ==
    /\ pc = "returned"
    /\ \E i, j \in Processed : outcome[i + 1] = "Routed" /\ outcome[j + 1] = "Discarded"

\* C7: under discard an unmatched record is appended to no channel and
\* raises no error: the channels hold as many records as processed input
\* records matched an intent, and the call does not fail.
C7_DiscardAppendsNothing ==
    fallbackBehavior = "discard" =>
        /\ pc # "failed"
        /\ \A i \in Processed :
             /\ outcome[i + 1] # "Failed"
             /\ FirstQualifying(i) = -1 =>
                  (outcome[i + 1] = "Discarded" /\ PlacesOf(returnData, i) = {})
        /\ TotalItems(returnData) =
             Cardinality({i \in Processed : FirstQualifying(i) >= 0})
        /\ pc = "returned" => TotalItems(result) = TotalItems(returnData)

\* C7's case: under discard, with intents configured, a batch returned
\* after an unmatched record and a matched one.
C7_Witness ==
    /\ fallbackBehavior = "discard"
    /\ NumIntents > 0
    /\ pc = "returned"
    /\ \E i, j \in Processed : FirstQualifying(i) = -1 /\ FirstQualifying(j) >= 0

\* C8: the records are processed one at a time in input order, and in
\* every channel the records lie in strictly increasing order of their
\* itemIndex, the error-annotated ones included.
C8_OrderPreserved ==
    /\ Len(outcome) = itemIndex + (IF pc = "failed" THEN 1 ELSE 0)
    /\ \A pl \in Places(returnData) : At(returnData, pl).pairedItem \in Processed
    /\ \A ch \in 1..Len(returnData) :
         \A p, q \in 1..Len(returnData[ch]) :
             p < q => returnData[ch][p].pairedItem < returnData[ch][q].pairedItem

\* C8's case: a channel holds a routed record followed by an
\* error-annotated one.
C8_Witness ==
    \E ch \in 1..Len(returnData) :
        /\ Len(returnData[ch]) = 2
        /\ ~returnData[ch][1].intentMetadata.error
        /\ returnData[ch][2].intentMetadata.error

\* The input records that no intent qualifies for.
Unmatched == {i \in 0..(Len(items) - 1) : FirstQualifying(i) = -1}

\* C9: under error in strict mode the first unmatched record of the batch
\* makes the call fail with the no-intent error that carries that record's
\* itemIndex; no later record is processed and nothing is returned.
C9_StrictErrorAborts ==
    (fallbackBehavior = "error" /\ ~continueOnFail) =>
        /\ pc = "failed" => Unmatched # {}
        /\ Unmatched # {} =>
             LET first == CHOOSE i \in Unmatched : \A j \in Unmatched : i <= j
             IN  /\ pc # "returned"
                 /\ result = <<>>
                 /\ itemIndex <= first
                 /\ Len(outcome) <= first + 1
                 /\ pc = "failed" =>
                      /\ itemIndex = first
                      /\ thrown.name = "NodeOperationError"
                      /\ thrown.message = NoIntentMessage(TextOf(first))
                      /\ thrown.itemIndex = first

\* C9's case: the call failed at the second record, the first one routed.
C9_Witness ==
    /\ fallbackBehavior = "error"
    /\ ~continueOnFail
    /\ pc = "failed"
    /\ outcome = <<"Routed", "Failed">>
    /\ thrown.itemIndex = 1

\* C10 as stated: under continue-on-failure every record whose processing
\* fails leaves exactly one error-annotated record (an error message,
\* recognizedIntent null, confidence 0) in the fallback channel if there is
\* one and else in channel 0, and the call does not fail.
C10_ErrorRecordAppended ==
    continueOnFail =>
        /\ pc # "failed"
        /\ \A i \in Processed :
             outcome[i + 1] = "Failed" =>
                \E pl \in PlacesOf(returnData, i) :
                    /\ PlacesOf(returnData, i) = {pl}
                    /\ pl[1] = (IF HasFallback(fallbackBehavior)
                                THEN Len(returnData) - 1 ELSE 0)
                    /\ Has(At(returnData, pl).json, ERROR)
                    /\ Get(At(returnData, pl).json, RECOGNIZED_INTENT) = Null
                    /\ FracEq(At(returnData, pl).intentMetadata.confidence, ZeroConfidence)

\* The json of the input record an output item comes from.
SourceOf(o) == items[o.pairedItem + 1].json

\* The field names the node writes on an output item: `error` on an error
\* record only.
WrittenNames(o) ==
    IF o.intentMetadata.error THEN OutputFieldNames ELSE OutputFieldNames \ {ERROR}

\* The value the node writes under one of those names.
WrittenValue(o, name) ==
    LET first == FirstQualifying(o.pairedItem)
    IN  CASE name = RECOGNIZED_INTENT ->
                IF o.intentMetadata.error \/ first < 0 THEN Null
                ELSE Str(intentsList[first + 1].key)
          [] name = ERROR -> Str(NoIntentMessage(TextOf(o.pairedItem)))
          [] OTHER -> Obj

\* C11 as stated: every field of an input record, whatever its name, is on
\* the corresponding output record with the same value, on routed records
\* and on error records.
C11_EveryFieldVerbatim ==
    \A pl \in Places(returnData) :
        LET o == At(returnData, pl)
            src == SourceOf(o)
        IN  \A k \in 1..Len(src) :
                /\ Has(o.json, src[k].name)
                /\ Get(o.json, src[k].name) = src[k].value

\* C11: every field of an input record is on the corresponding output
\* record, routed or error record; it has the input's value unless its name
\* is one the node writes (recognizedIntent, extractedParameters,
\* intentMetadata, and error on an error record), and then it has the
\* value the node writes, the input's value being lost.
C11_FieldsKeptUnlessWritten ==
    \A pl \in Places(returnData) :
        LET o == At(returnData, pl)
            src == SourceOf(o)
        IN  \A k \in 1..Len(src) :
                /\ Has(o.json, src[k].name)
                /\ src[k].name \notin WrittenNames(o) =>
                      Get(o.json, src[k].name) = src[k].value
                /\ src[k].name \in WrittenNames(o) =>
                      Get(o.json, src[k].name) = WrittenValue(o, src[k].name)

\* C11's case: a routed record whose input has a field named `error` and a
\* field `date`, both on the output with the input's values.
C11_Witness ==
    \E pl \in Places(returnData) :
        LET o == At(returnData, pl)
        IN  /\ ~o.intentMetadata.error
            /\ Has(SourceOf(o), ERROR)
            /\ Has(SourceOf(o), DATE)
            /\ Get(o.json, ERROR) = Get(SourceOf(o), ERROR)
            /\ Get(o.json, DATE) = Get(SourceOf(o), DATE)

\* The output items of the records an intent was selected for, which the
\* parameter extraction ran on.
MatchedPlaces ==
    {pl \in Places(returnData) :
        /\ ~At(returnData, pl).intentMetadata.error
        /\ FirstQualifying(At(returnData, pl).pairedItem) >= 0}

\* The parameters of the intent selected for an output item.
ParametersOf(o) == intentsList[FirstQualifying(o.pairedItem) + 1].parameterOptions

\* No two parameters of the list have the same name.
DistinctNames(parameterOptions) ==
    \A k, l \in 1..Len(parameterOptions) :
        parameterOptions[k].key = parameterOptions[l].key => k = l

\* C12: for a matched record and every declared parameter,
\* extractedParameters has the parameter's name iff the record has a field
\* of that exact name or the parameter's defaultValue is non-empty (for a
\* name declared twice: or a parameter of that name has one); the value is
\* the record's field value verbatim when the field exists, else the
\* default (of the last parameter of that name that has one).  A required
\* parameter with neither field nor default is omitted, nothing else is
\* extracted, and a matched record is routed: the extraction raises
\* nothing.
C12_ParameterExtraction ==
    /\ \A i \in Processed : FirstQualifying(i) >= 0 => outcome[i + 1] = "Routed"
    /\ \A pl \in MatchedPlaces :
        LET o == At(returnData, pl)
            src == SourceOf(o)
            ps == ParametersOf(o)
            ep == o.extractedParameters
            WithDefault(name) ==
                {k \in 1..Len(ps) : ps[k].key = name /\ ps[k].defaultValue # <<>>}
        IN  /\ \A e \in 1..Len(ep) : \E k \in 1..Len(ps) : ps[k].key = ep[e].name
            /\ \A k \in 1..Len(ps) :
                 LET name == ps[k].key
                 IN  /\ Has(ep, name) <=> (Has(src, name) \/ WithDefault(name) # {})
                     /\ Has(src, name) => Get(ep, name) = Get(src, name)
                     /\ (~Has(src, name) /\ WithDefault(name) # {}) =>
                          LET last == CHOOSE d \in WithDefault(name) :
                                         \A d2 \in WithDefault(name) : d2 <= d
                          IN  Get(ep, name) = Str(ps[last].defaultValue)
                     /\ DistinctNames(ps) =>
                          /\ Has(ep, name) <=>
                               (Has(src, name) \/ ps[k].defaultValue # <<>>)
                          /\ Has(ep, name) =>
                               Get(ep, name) =
                                 (IF Has(src, name) THEN Get(src, name)
                                  ELSE Str(ps[k].defaultValue))
                          /\ (ps[k].required /\ ~Has(src, name)
                                /\ ps[k].defaultValue = <<>>) => ~Has(ep, name)

\* C12's case: a matched record with a numeric field `date` and two
\* parameters, `date` with a default and a required `city` with neither
\* field nor default: date is extracted as the number, city is omitted.
C12_Witness ==
    \E pl \in MatchedPlaces :
        LET o == At(returnData, pl)
            ps == ParametersOf(o)
        IN  /\ Len(ps) = 2
            /\ ps[1].key = DATE /\ ps[1].defaultValue # <<>>
            /\ ps[2].key = CITY /\ ps[2].required /\ ps[2].defaultValue = <<>>
            /\ Get(SourceOf(o), DATE) = Num(7)
            /\ o.extractedParameters = <<Field(DATE, Num(7))>>

\* C13: under route_to_fallback every record that matches no intent is
\* appended once, as an enriched record (not an error record) with
\* recognizedIntent null and no extracted parameter, to the fallback
\* channel, which is the last one, index K for K intents; with no intent
\* the one channel, index 0, receives every record, in input order.
C13_UnmatchedToFallback ==
    fallbackBehavior = "route_to_fallback" =>
        /\ pc # "failed"
        /\ Len(returnData) = NumIntents + 1
        /\ \A i \in Processed :
             FirstQualifying(i) = -1 =>
                /\ outcome[i + 1] = "Routed"
                /\ \E pl \in PlacesOf(returnData, i) :
                     LET o == At(returnData, pl)
                     IN  /\ PlacesOf(returnData, i) = {pl}
                         /\ pl[1] = Len(returnData) - 1
                         /\ pl[1] = NumIntents
                         /\ ~o.intentMetadata.error
                         /\ Get(o.json, RECOGNIZED_INTENT) = Null
                         /\ Has(o.json, EXTRACTED_PARAMETERS)
                         /\ Has(o.json, INTENT_METADATA)
                         /\ o.extractedParameters = <<>>
        /\ NumIntents = 0 =>
             /\ Len(returnData) = 1
             /\ \A i \in Processed : PlacesOf(returnData, i) = {<<0, i + 1>>}
             /\ pc = "returned" =>
                  /\ Len(result) = 1
                  /\ Len(result[1]) = Len(items)

\* C13's case: two intents, a returned batch of which the first record
\* matched an intent and the second, unmatched, lies in channel 2.
C13_Witness ==
    /\ fallbackBehavior = "route_to_fallback"
    /\ pc = "returned"
    /\ NumIntents = 2
    /\ Len(items) = 2
    /\ FirstQualifying(0) >= 0
    /\ FirstQualifying(1) = -1
    /\ PlacesOf(returnData, 1) = {<<2, 1>>}

\* The output items of the records no intent was selected for, routed to
\* the fallback.
UnmatchedPlaces ==
    {pl \in Places(returnData) :
        /\ ~At(returnData, pl).intentMetadata.error
        /\ FirstQualifying(At(returnData, pl).pairedItem) = -1}

\* The 1-based positions of the intents of which the code finds at least
\* one keyword in the text of input item i.
WithKeywordFound(i) ==
    {j \in 1..Len(intentsList) : MatchCount(intentsList[j], i) > 0}

\* C14 as stated: when no intent reaches the threshold, the confidence on
\* the record is the confidence computed for the last intent of the list,
\* also when that intent matched no keyword or has no keywords.
C14_ConfidenceOfLastIntent ==
    \A pl \in UnmatchedPlaces :
        LET o == At(returnData, pl)
        IN  NumIntents > 0 =>
               FracEq(o.intentMetadata.confidence,
                      ComputedConfidence(intentsList[NumIntents], o.pairedItem))

\* C14: when no intent reaches the threshold, the confidence on the record
\* is the confidence computed for the last intent, in declaration order, of
\* which at least one keyword was found in the text, and 0 when no keyword
\* of any intent was found; a later intent that matched no keyword or has
\* no keywords leaves the earlier value.
C14_ConfidenceOfLastFound ==
    \A pl \in UnmatchedPlaces :
        LET o == At(returnData, pl)
            found == WithKeywordFound(o.pairedItem)
        IN  IF found = {}
            THEN FracEq(o.intentMetadata.confidence, Frac(0, 1))
            ELSE LET last == CHOOSE j \in found : \A k \in found : k <= j
                 IN  /\ FracEq(o.intentMetadata.confidence,
                               ComputedConfidence(intentsList[last], o.pairedItem))
                     /\ ~FracEq(o.intentMetadata.confidence, Frac(0, 1))

\* C14's case: an unmatched record for which the first of two intents has a
\* keyword found, below the threshold, and the last intent has none: the
\* record reports the first intent's confidence.
C14_Witness ==
    \E pl \in UnmatchedPlaces :
        LET o == At(returnData, pl)
        IN  /\ NumIntents = 2
            /\ WithKeywordFound(o.pairedItem) = {1}
            /\ FracEq(o.intentMetadata.confidence, Frac(1, 2))

\* The text C15 describes for a record: the input field's value as a string
\* when the record has the field, the serialization of the record when it
\* has not; lower-cased unless caseSensitive, as the code does with either.
TextByPresence(json, opts) ==
    LET text == IF Has(json, opts.inputField)
                THEN StringOf(Get(json, opts.inputField))
                ELSE JSONStringify(json)
    IN  IF opts.caseSensitive THEN text ELSE ToLowerCase(text)

\* C15 as stated: the text classified for a record, which a routed record
\* reports as inputText, is the input field's value whenever the record has
\* the field, an empty string, 0 and false included, and the serialization
\* of the whole record exactly when the field is absent; a record without
\* the field fails only as any record would, for matching no intent under
\* error.
C15_TextByPresence ==
    /\ \A pl \in Places(returnData) :
         LET o == At(returnData, pl)
         IN  ~o.intentMetadata.error =>
                o.intentMetadata.inputText =
                   Str(Substring0(TextByPresence(SourceOf(o), options), InputTextLimit))
    /\ \A i \in Processed :
         (~Has(items[i + 1].json, options.inputField) /\ outcome[i + 1] = "Failed") =>
            (fallbackBehavior = "error" /\ FirstQualifying(i) = -1)

\* C16: a record that matches an intent is appended, once, to the channel
\* whose index is that intent's 0-based declaration position, and carries
\* that intent's key as recognizedIntent; so every record of channel i < K
\* that is not an error record has recognizedIntent = intents[i].key, and
\* every other record that is not an error record lies in the fallback
\* channel, index K, and has recognizedIntent null.
C16_ChannelIsDeclarationPosition ==
    /\ \A i \in Processed :
         FirstQualifying(i) >= 0 =>
            \E pl \in PlacesOf(returnData, i) :
                /\ PlacesOf(returnData, i) = {pl}
                /\ pl[1] = FirstQualifying(i)
                /\ ~At(returnData, pl).intentMetadata.error
                /\ Get(At(returnData, pl).json, RECOGNIZED_INTENT) =
                      Str(intentsList[FirstQualifying(i) + 1].key)
    /\ \A pl \in Places(returnData) :
         LET o == At(returnData, pl)
         IN  ~o.intentMetadata.error =>
                IF pl[1] < NumIntents
                THEN Get(o.json, RECOGNIZED_INTENT) = Str(intentsList[pl[1] + 1].key)
                ELSE /\ HasFallback(fallbackBehavior)
                     /\ pl[1] = NumIntents
                     /\ Get(o.json, RECOGNIZED_INTENT) = Null

\* C16's case: two intents of different keys and a fallback; of a returned
\* batch one record lies in channel 1 and one in the fallback channel.
C16_Witness ==
    /\ pc = "returned"
    /\ fallbackBehavior = "route_to_fallback"
    /\ NumIntents = 2
    /\ intentsList[1].key # intentsList[2].key
    /\ Len(returnData[1]) = 0
    /\ Len(returnData[2]) = 1
    /\ Len(returnData[3]) = 1

\* C17 as stated: for every intent list, every fallbackBehavior and both
\* failure modes, each append targets an existing channel: no push, of a
\* routed record or of an error record, has addressed a channel that does
\* not exist and failed for it, so that under continue-on-failure the call
\* does not fail.
C17_AppendsTargetExistingChannel ==
    /\ thrown.message # PushOfUndefined.message
    /\ continueOnFail => pc # "failed"

=============================================================================
